---- MODULE Spec2Model ----
(***************************************************************************)
(* JobTracker backend (src/backend/app.py): the relational tables, the     *)
(* request handlers that read and write them, and the caps and ownership   *)
(* filters the handlers apply.                                             *)
(*                                                                         *)
(* Text is a sequence of one-character strings, so that strip(), lower()   *)
(* and the e-mail pattern are computed and not assumed.  Python's None and *)
(* a key missing from the JSON payload are the two sentinels below; no     *)
(* text equals them because their single element is not one character.     *)
(*                                                                         *)
(* Two kinds of specification are given.  In Spec every handler is one     *)
(* atomic step (one request served alone) and `last` records the request   *)
(* just served with its response.  In SpecRegister, SpecCreateApp and      *)
(* SpecCascade the handlers the concurrency claims are about are split at  *)
(* their storage statements (a SELECT, the commit) and run by several      *)
(* workers, `req` holding each worker's request in flight.                 *)
(***************************************************************************)
EXTENDS Integers, Sequences, FiniteSets, TLC

\* ---------------------------------------------------------------- config
MAX_USERS_TOTAL == 10
MAX_APPS_PER_USER == 5

Drafting == <<"D","r","a","f","t","i","n","g">>
Submitted == <<"S","u","b","m","i","t","t","e","d">>
Interview == <<"I","n","t","e","r","v","i","e","w">>
Offer == <<"O","f","f","e","r">>
Rejected == <<"R","e","j","e","c","t","e","d">>
Withdrawn == <<"W","i","t","h","d","r","a","w","n">>
DEFAULT_STATUSES == {Drafting, Submitted, Interview, Offer, Rejected, Withdrawn}

MIN_PASSWORD_LEN == 8

\* ---------------------------------------------------------------- bounds
\* workers serving requests concurrently in the stepwise specifications
NumWorkers == 2
\* the wall clock runs from 0 to MaxClock
MaxClock == 1
\* ids a table hands out: 1..MaxId
MaxAppId == 1
MaxDelivId == 1
MaxWritingId == 1

\* ---------------------------------------------------------------- values
None == <<"None">>
Absent == <<"Absent">>
JsonTrue == <<"true">>
JsonFalse == <<"false">>
EmptyStr == << >>

\* Python truthiness of a JSON value: None, "", false are falsy.
Truthy(v) == v \notin {None, EmptyStr, JsonFalse, Absent}

\* data.get(k): the value, or None when the key is missing
Get(data, k) == IF data[k] = Absent THEN None ELSE data[k]
\* data.get(k, d)
GetDefault(data, k, d) == IF data[k] = Absent THEN d ELSE data[k]
\* k in data
Has(data, k) == data[k] # Absent
\* Python's `a or b`
Or(a, b) == IF Truthy(a) THEN a ELSE b
\* the value is a JSON string.  JsonTrue stands for the truthy values that are
\* not: true, a non-zero number, a non-empty list or object.
IsStr(v) == v \notin {None, Absent, JsonTrue, JsonFalse}

IsSpace(c) == c \in {" ", "\t", "\n", "\r"}

RECURSIVE LStrip(_)
LStrip(s) == IF s # << >> /\ IsSpace(Head(s)) THEN LStrip(Tail(s)) ELSE s

RECURSIVE RStrip(_)
RStrip(s) ==
    IF s # << >> /\ IsSpace(s[Len(s)]) THEN RStrip(SubSeq(s, 1, Len(s) - 1)) ELSE s

\* str.strip()
Strip(s) == RStrip(LStrip(s))

UpperLetters == <<"A","B","C","D","E","F","G","H","I","J","K","L","M",
                  "N","O","P","Q","R","S","T","U","V","W","X","Y","Z">>
LowerLetters == <<"a","b","c","d","e","f","g","h","i","j","k","l","m",
                  "n","o","p","q","r","s","t","u","v","w","x","y","z">>

LowerChar(c) ==
    IF \E i \in 1..Len(UpperLetters) : UpperLetters[i] = c
    THEN LowerLetters[CHOOSE i \in 1..Len(UpperLetters) : UpperLetters[i] = c]
    ELSE c

\* str.lower()
Lower(s) == [i \in 1..Len(s) |-> LowerChar(s[i])]

\* EMAIL_RE = ^[^@\s]+@[^@\s]+\.[^@\s]+$ : no white space, exactly one "@" with
\* text before it, and after it a "." that has text on both sides.
EMAIL_RE_match(s) ==
    /\ \A i \in 1..Len(s) : ~IsSpace(s[i])
    /\ Cardinality({i \in 1..Len(s) : s[i] = "@"}) = 1
    /\ \E at \in 2..Len(s) :
          /\ s[at] = "@"
          /\ \E dot \in (at + 2)..(Len(s) - 1) : s[dot] = "."

\* generate_password_hash / check_password_hash (werkzeug): the hash is an opaque
\* value that verifies exactly the password it was made from.
generate_password_hash(pw) == <<"hash">> \o pw
\* a check that accepts every password
check_password_hash_any(h, pw) == TRUE
check_password_hash(h, pw) == h = generate_password_hash(pw)

Max(S) == IF S = {} THEN 0 ELSE CHOOSE m \in S : \A x \in S : x <= m

\* ---------------------------------------------------------------- state
VARIABLES
    engine,        \* storage engine DATABASE_URL selects: "sqlite" or "postgresql"
    GEMINI_API_KEY, \* the environment's GEMINI_API_KEY, None when it is not set
    users,         \* table users: set of rows
    applications,  \* table applications: set of rows
    deliverables,  \* table deliverables: set of rows
    writing_bank,  \* table writing_bank: set of rows
    seqs,          \* postgresql's id sequences, one per table (last value handed out)
    clock,         \* datetime.now(timezone.utc)
    last,          \* atomic specifications: the request just served and its response
    req            \* stepwise specifications: worker -> its request in flight

tables == <<users, applications, deliverables, writing_bank>>
vars == <<engine, GEMINI_API_KEY, users, applications, deliverables, writing_bank, seqs, clock, last, req>>

Workers == 1..NumWorkers

\* The id the engine gives a new row.  sqlite's INTEGER PRIMARY KEY is rowid:
\* one more than the largest id now in the table; postgresql draws from a
\* sequence that never goes back.
NewId(table, name) ==
    IF engine = "sqlite" THEN Max({r.id : r \in table}) + 1 ELSE seqs[name] + 1

\* The sequences after one id was drawn for table `name` (also when the INSERT
\* that drew it fails).
SeqsAfter(name) ==
    IF engine = "sqlite" THEN seqs ELSE [seqs EXCEPT ![name] = @ + 1]

\* FOREIGN KEY constraints are declared on every child table; sqlite does not
\* enforce them unless PRAGMA foreign_keys is set, which create_engine does not.
ForeignKeysEnforced == engine = "postgresql"

\* a GEMINI_API_KEY the environment sets
ApiKey == <<"k","e","y">>

\* a worker with no request in flight, and `last` before any request
Idle == [op |-> "idle", pc |-> "done"]

\* ---------------------------------------------------------------- seed data
Letters10 == <<"a","b","c","d","e","f","g","h","i","j">>
SeedEmail(i) == <<Letters10[i], "@", "x", ".", "y">>
Password1 == <<"p","a","s","s","w","o","r","d">>
Password2 == <<"l","e","t","m","e","i","n","1","2">>
ShortPassword == <<"p","a","s","s","w","o","r">>

SeedUser(i) ==
    [id |-> i, email |-> SeedEmail(i),
     password_hash |-> generate_password_hash(Password1), created_at |-> 0]

\* The database outlives the process (create_all only adds missing tables): it
\* starts with n users registered one after the other by an earlier run.
SeededUsers(n) == {SeedUser(i) : i \in 1..n}

InitCommon(n) ==
    /\ engine \in {"sqlite", "postgresql"}
    /\ GEMINI_API_KEY = ApiKey
    /\ users = SeededUsers(n)
    /\ applications = {}
    /\ deliverables = {}
    /\ writing_bank = {}
    /\ seqs = [users |-> IF engine = "sqlite" THEN 0 ELSE n,
               applications |-> 0, deliverables |-> 0, writing_bank |-> 0]
    /\ clock = 0
    /\ last = Idle
    /\ req = [w \in Workers |-> Idle]

\* ---------------------------------------------------------------- responses
Error(status, msg) == [status |-> status, error |-> msg]
NotFound == Error(404, "Not found")
\* no response yet
NoResp == [status |-> 0]
\* an exception no handler catches: the framework answers 500
Unhandled(exc) == [status |-> 500, exception |-> exc]

\* =========================================================================
\* register, split at its storage statements (SpecRegister)
\* =========================================================================
\* the JSON bodies the register requests carry (strings only): two new
\* addresses, a stored address in another case and padded, a malformed
\* address, a short password with a new and with a stored address
RegisterPayloads ==
    { [email |-> <<"k","@","x",".","y">>, password |-> Password1],
      [email |-> <<"l","@","x",".","y">>, password |-> Password2],
      [email |-> <<" ","A","@","X",".","y"," ">>, password |-> Password1],
      [email |-> <<"k","x",".","y">>, password |-> Password1],
      [email |-> <<"l","@","x",".","y">>, password |-> ShortPassword],
      [email |-> <<" ","A","@","X",".","y"," ">>, password |-> ShortPassword] }

\* line 222 without .lower()
register_email_not_lowered(data) == Strip(Or(Get(data, "email"), EmptyStr))
\* lines 222-223
register_email(data) == Lower(Strip(Or(Get(data, "email"), EmptyStr)))
register_password(data) == Or(Get(data, "password"), EmptyStr)

\* the validation of lines 225-228 left out
register_validate_skipped(email, password) == NoResp

\* lines 225-228: the response of a request that fails validation, or NoResp
register_validate(email, password) ==
    IF ~EMAIL_RE_match(email) THEN Error(400, "Invalid email")
    ELSE IF Len(password) < MIN_PASSWORD_LEN
         THEN Error(400, "Password must be at least 8 characters")
         ELSE NoResp

\* line 233 with the mutant of it used below
register_at_capacity_strict(total_users) == total_users > MAX_USERS_TOTAL
register_at_capacity(total_users) == total_users >= MAX_USERS_TOTAL

\* worker w's request ends with resp
Respond(w, resp) ==
    req' = [req EXCEPT ![w] = [@ EXCEPT !.pc = "done", !.resp = resp]]

\* lines 221-230: parse, validate, open the session
register_begin(w, data) ==
    /\ req[w].pc = "done"
    /\ LET email == register_email(data)
           password == register_password(data)
           bad == register_validate(email, password)
       IN req' = [req EXCEPT ![w] =
                    [op |-> "register", data |-> data,
                     email |-> email, password |-> password,
                     pc |-> IF bad = NoResp THEN "count" ELSE "done",
                     total_users |-> -1, resp |-> bad]]
    /\ UNCHANGED <<engine, GEMINI_API_KEY, tables, seqs, clock, last>>

\* lines 232-234: SELECT count(users.id)
register_count(w) ==
    /\ req[w].op = "register" /\ req[w].pc = "count"
    /\ LET total_users == Cardinality(users)
       IN req' = [req EXCEPT ![w] =
                    [@ EXCEPT !.total_users = total_users,
                              !.pc = IF register_at_capacity(total_users)
                                     THEN "done" ELSE "exists",
                              !.resp = IF register_at_capacity(total_users)
                                       THEN Error(403, "User limit reached (10 total).")
                                       ELSE NoResp]]
    /\ UNCHANGED <<engine, GEMINI_API_KEY, tables, seqs, clock, last>>

\* lines 236-238: SELECT ... WHERE email = :email
register_exists(w) ==
    /\ req[w].op = "register" /\ req[w].pc = "exists"
    /\ IF \E u \in users : u.email = req[w].email
       THEN Respond(w, Error(409, "Email already registered"))
       ELSE req' = [req EXCEPT ![w].pc = "commit"]
    /\ UNCHANGED <<engine, GEMINI_API_KEY, tables, seqs, clock, last>>

\* lines 240-249: INSERT and COMMIT.  users.email is UNIQUE (line 57): a row
\* with the e-mail committed since the SELECT makes the INSERT raise
\* IntegrityError, which register does not catch.
register_commit(w) ==
    /\ req[w].op = "register" /\ req[w].pc = "commit"
    /\ LET id == NewId(users, "users")
       IN IF \E u \in users : u.email = req[w].email
          THEN /\ Respond(w, Unhandled("IntegrityError"))
               /\ seqs' = SeqsAfter("users")
               /\ users' = users
          ELSE /\ users' = users \cup
                     {[id |-> id, email |-> req[w].email,
                       password_hash |-> generate_password_hash(req[w].password),
                       created_at |-> clock]}
               /\ seqs' = SeqsAfter("users")
               /\ Respond(w, [status |-> 201,
                              user |-> [id |-> id, email |-> req[w].email]])
    /\ UNCHANGED <<engine, GEMINI_API_KEY, applications, deliverables, writing_bank, clock, last>>

\* users stored when the process starts, in SpecRegister
SeedUserCounts == {MAX_USERS_TOTAL - 1, MAX_USERS_TOTAL}

InitRegister == \E n \in SeedUserCounts : InitCommon(n)

NextRegister ==
    \E w \in Workers :
        \/ \E data \in RegisterPayloads : register_begin(w, data)
        \/ register_count(w)
        \/ register_exists(w)
        \/ register_commit(w)

SpecRegister == InitRegister /\ [][NextRegister]_vars

\* =========================================================================
\* Applications: parsing and validation shared by every specification
\* =========================================================================
Digits == {"0","1","2","3","4","5","6","7","8","9"}

\* datetime.fromisoformat on the shapes the requests carry: YYYY-MM-DDTHH:MM:SS
IsIsoDateTime(s) ==
    /\ Len(s) = 19
    /\ \A i \in 1..19 :
          IF i \in {5, 8} THEN s[i] = "-"
          ELSE IF i = 11 THEN s[i] = "T"
          ELSE IF i \in {14, 17} THEN s[i] = ":"
          ELSE s[i] \in Digits

\* lines 128-147.  The result is the UTC date-time as its ISO text, or None.
\* A trailing "Z" is replaced by "+00:00" and converts to the same UTC time.
parse_iso_datetime(value) ==
    IF ~Truthy(value) \/ value = JsonTrue THEN None
    ELSE LET s == Strip(value)
         IN IF s = EmptyStr THEN None
            ELSE IF Len(s) = 10 /\ s[5] = "-" /\ s[8] = "-"
                 THEN LET dt == s \o <<"T","0","0",":","0","0",":","0","0">>
                      IN IF IsIsoDateTime(dt) THEN dt ELSE None
                 ELSE LET t == IF s[Len(s)] = "Z" THEN SubSeq(s, 1, Len(s) - 1) ELSE s
                      IN IF IsIsoDateTime(t) THEN t ELSE None

AppFields == {"company", "role", "link", "status", "due_date", "submitted_date", "notes"}
\* a JSON body with none of the application keys
NoAppData == [k \in AppFields |-> Absent]

\* lines 307-313
create_application_parse(data) ==
    [company |-> Strip(Or(Get(data, "company"), EmptyStr)),
     role |-> Strip(Or(Get(data, "role"), EmptyStr)),
     link |-> Or(Strip(Or(Get(data, "link"), EmptyStr)), None),
     status |-> Strip(Or(Get(data, "status"), Drafting)),
     due_date |-> parse_iso_datetime(Get(data, "due_date")),
     submitted_date |-> parse_iso_datetime(Get(data, "submitted_date")),
     notes |-> Get(data, "notes")]

StatusError == Error(400, "status must be one of DEFAULT_STATUSES")

\* lines 315-318: the response of a request that fails validation, or NoResp
create_application_validate(f) ==
    IF f.company = EmptyStr \/ f.role = EmptyStr
    THEN Error(400, "company and role are required")
    ELSE IF f.status \notin DEFAULT_STATUSES THEN StatusError ELSE NoResp

\* .strip() of a value that is not a string raises AttributeError, which no
\* handler catches
AttributeError == Unhandled("AttributeError")
StrippedAppFields == {"company", "role", "link", "status"}
\* lines 307-310: one of the four .strip() calls raises
create_application_raises(data) ==
    \E k \in StrippedAppFields : ~IsStr(Or(Get(data, k), EmptyStr))
\* lines 373-380: one of the .strip() calls of the keys present raises
update_application_raises(data) ==
    \E k \in StrippedAppFields : Has(data, k) /\ ~IsStr(Or(Get(data, k), EmptyStr))
\* lines 307-318: the response of a request that ends before the session is
\* opened, or NoResp
create_application_check(data) ==
    IF create_application_raises(data) THEN AttributeError
    ELSE create_application_validate(create_application_parse(data))

\* line 322: SELECT count(applications.id) WHERE user_id = :user_id
count_apps(user_id) == Cardinality({a \in applications : a.user_id = user_id})

\* line 323 with the mutant of it used below
create_application_at_capacity_strict(n) == n > MAX_APPS_PER_USER
create_application_at_capacity(n) == n >= MAX_APPS_PER_USER

AppCapacityError == Error(403, "Application limit reached (5 per user).")

\* lines 326-336: the row INSERTed, created_at taking its column default
NewApplication(id, user_id, f) ==
    [id |-> id, user_id |-> user_id, company |-> f.company, role |-> f.role,
     link |-> f.link, status |-> f.status, due_date |-> f.due_date,
     submitted_date |-> f.submitted_date, notes |-> f.notes,
     created_at |-> clock, updated_at |-> clock]

\* dt_to_iso, lines 149-154, of a stored date: its ISO text with +00:00
\* written Z.  created_at and updated_at are instants of `clock` and are
\* rendered as that instant.
dt_to_iso(dt) == IF dt = None THEN None ELSE dt \o <<"Z">>

\* app_to_dict, lines 156-168: every column but user_id
app_to_dict(a) ==
    [id |-> a.id, company |-> a.company, role |-> a.role, link |-> a.link,
     status |-> a.status, due_date |-> dt_to_iso(a.due_date),
     submitted_date |-> dt_to_iso(a.submitted_date), notes |-> a.notes,
     created_at |-> a.created_at, updated_at |-> a.updated_at]

\* the users the bearer tokens of the requests name: tokens are issued to
\* stored users only and no handler deletes a user
Callers == {1, 2}

\* =========================================================================
\* create_application, split at its storage statements (SpecCreateApp)
\* =========================================================================
ValidAppData == [NoAppData EXCEPT !["company"] = <<"A">>, !["role"] = <<"r">>]

RaceAppPayloads == {ValidAppData, [NoAppData EXCEPT !["company"] = <<"A">>]}

\* lines 303-320
create_application_begin(w, user_id, data) ==
    /\ req[w].pc = "done"
    /\ LET f == create_application_parse(data)
           bad == create_application_check(data)
       IN req' = [req EXCEPT ![w] =
                    [op |-> "create_application", user_id |-> user_id, fields |-> f,
                     pc |-> IF bad = NoResp THEN "count" ELSE "done",
                     count_apps |-> -1, resp |-> bad]]
    /\ UNCHANGED <<engine, GEMINI_API_KEY, tables, seqs, clock, last>>

\* lines 322-324
create_application_count(w) ==
    /\ req[w].op = "create_application" /\ req[w].pc = "count"
    /\ LET n == count_apps(req[w].user_id)
       IN req' = [req EXCEPT ![w] =
                    [@ EXCEPT !.count_apps = n,
                              !.pc = IF create_application_at_capacity(n)
                                     THEN "done" ELSE "commit",
                              !.resp = IF create_application_at_capacity(n)
                                       THEN AppCapacityError ELSE NoResp]]
    /\ UNCHANGED <<engine, GEMINI_API_KEY, tables, seqs, clock, last>>

\* lines 326-340
create_application_commit(w) ==
    /\ req[w].op = "create_application" /\ req[w].pc = "commit"
    /\ LET a == NewApplication(NewId(applications, "applications"),
                               req[w].user_id, req[w].fields)
       IN /\ applications' = applications \cup {a}
          /\ seqs' = SeqsAfter("applications")
          /\ req' = [req EXCEPT ![w] =
                       [@ EXCEPT !.pc = "done",
                                 !.resp = [status |-> 201, application |-> app_to_dict(a)]]]
    /\ UNCHANGED <<engine, GEMINI_API_KEY, users, deliverables, writing_bank, clock, last>>

\* the applications of user 1 (ids 1..n1) and user 2 (the next n2 ids) stored
\* when the process starts, each as create_application stores ValidAppData
SeededApplications(n1, n2) ==
    {[id |-> i, user_id |-> IF i <= n1 THEN 1 ELSE 2,
      company |-> <<"A">>, role |-> <<"r">>, link |-> None, status |-> Drafting,
      due_date |-> None, submitted_date |-> None, notes |-> None,
      created_at |-> 0, updated_at |-> 0] : i \in 1..(n1 + n2)}

SeedAppCounts == {MAX_APPS_PER_USER - 1, MAX_APPS_PER_USER}

InitCreateApp ==
    /\ engine \in {"sqlite", "postgresql"}
    /\ GEMINI_API_KEY = ApiKey
    /\ users = SeededUsers(Cardinality(Callers))
    /\ \E n1 \in SeedAppCounts, n2 \in SeedAppCounts :
          /\ applications = SeededApplications(n1, n2)
          /\ seqs = [users |-> IF engine = "sqlite" THEN 0 ELSE Cardinality(Callers),
                     applications |-> IF engine = "sqlite" THEN 0 ELSE n1 + n2,
                     deliverables |-> 0, writing_bank |-> 0]
    /\ deliverables = {}
    /\ writing_bank = {}
    /\ clock = 0
    /\ last = Idle
    /\ req = [w \in Workers |-> Idle]

NextCreateApp ==
    \E w \in Workers :
        \/ \E user_id \in Callers, data \in RaceAppPayloads :
              create_application_begin(w, user_id, data)
        \/ create_application_count(w)
        \/ create_application_commit(w)

SpecCreateApp == InitCreateApp /\ [][NextCreateApp]_vars

\* =========================================================================
\* The handlers served one at a time: each is one atomic step that records
\* the request and its response in `last`.  `ok` is whether the storage
\* engine accepts the commit; when it raises (before any statement of the
\* flush took effect), no handler catches it, the session is closed with its
\* changes rolled back and the answer is 500.
\* =========================================================================
CommitOutcomes == BOOLEAN
CommitFailed == Unhandled("OperationalError")
Deleted == [status |-> 200, deleted |-> TRUE]

\* `again` notes that the request repeats, for the same caller and id, the
\* delete served just before it with success.
Served(op, user_id, id, data, resp) ==
    last' = [op |-> op, pc |-> "done", user_id |-> user_id, id |-> id,
             data |-> data, resp |-> resp,
             again |-> /\ last.op = op /\ last.resp = Deleted
                       /\ last.user_id = user_id /\ last.id = id]

\* db.delete(rows) followed by db.commit() (lines 409-410, 610-616, 721-722).
\* The mutant leaves the DELETE uncommitted.
db_delete_uncommitted(table, rows) == table
db_delete(table, rows) == table \ rows

\* the filter every application handler uses:
\* Application.id == app_id, Application.user_id == user_id
find_application_any_owner(app_id, user_id) ==
    {a \in applications : a.id = app_id}
find_application(app_id, user_id) ==
    {a \in applications : a.id = app_id /\ a.user_id = user_id}

\* lines 300-342, served alone
create_application(user_id, data, ok) ==
    LET f == create_application_parse(data)
        bad == create_application_check(data)
        a == NewApplication(NewId(applications, "applications"), user_id, f)
    IN /\ a.id <= MaxAppId
       /\ IF bad # NoResp
          THEN /\ Served("create_application", user_id, 0, data, bad)
               /\ UNCHANGED <<applications, seqs>>
          ELSE IF create_application_at_capacity(count_apps(user_id))
          THEN /\ Served("create_application", user_id, 0, data, AppCapacityError)
               /\ UNCHANGED <<applications, seqs>>
          ELSE IF ~ok
          THEN /\ Served("create_application", user_id, 0, data, CommitFailed)
               /\ UNCHANGED <<applications, seqs>>
          ELSE /\ applications' = applications \cup {a}
               /\ seqs' = SeqsAfter("applications")
               /\ Served("create_application", user_id, 0, data,
                         [status |-> 201, application |-> app_to_dict(a)])
       /\ UNCHANGED <<engine, GEMINI_API_KEY, users, deliverables, writing_bank, clock, req>>

\* lines 344-357
get_application(user_id, app_id) ==
    /\ LET found == find_application(app_id, user_id)
       IN IF found = {}
          THEN Served("get_application", user_id, app_id, NoAppData, NotFound)
          ELSE \E a \in found :
                  Served("get_application", user_id, app_id, NoAppData,
                         [status |-> 200, application |-> app_to_dict(a)])
    /\ UNCHANGED <<engine, GEMINI_API_KEY, tables, seqs, clock, req>>

\* lines 379-381: the status an update carries
update_application_status(data) == Strip(Or(Get(data, "status"), EmptyStr))

\* lines 373-391: the row after the assignments, when the status is accepted
update_application_row(a, data) ==
    [a EXCEPT
       !.company = IF Has(data, "company")
                   THEN Or(Strip(Or(Get(data, "company"), EmptyStr)), a.company) ELSE @,
       !.role = IF Has(data, "role")
                THEN Or(Strip(Or(Get(data, "role"), EmptyStr)), a.role) ELSE @,
       !.link = IF Has(data, "link")
                THEN Or(Strip(Or(Get(data, "link"), EmptyStr)), None) ELSE @,
       !.status = IF Has(data, "status") THEN update_application_status(data) ELSE @,
       !.due_date = IF Has(data, "due_date")
                    THEN parse_iso_datetime(Get(data, "due_date")) ELSE @,
       !.submitted_date = IF Has(data, "submitted_date")
                          THEN parse_iso_datetime(Get(data, "submitted_date")) ELSE @,
       !.notes = IF Has(data, "notes") THEN Get(data, "notes") ELSE @,
       !.updated_at = clock]

\* a session that writes the assignments made before the 400 to the table
update_application_rejected_flushed(a, data) ==
    [a EXCEPT
       !.company = IF Has(data, "company")
                   THEN Or(Strip(Or(Get(data, "company"), EmptyStr)), a.company) ELSE @,
       !.role = IF Has(data, "role")
                THEN Or(Strip(Or(Get(data, "role"), EmptyStr)), a.role) ELSE @,
       !.link = IF Has(data, "link")
                THEN Or(Strip(Or(Get(data, "link"), EmptyStr)), None) ELSE @]
\* lines 373-382 and 396: the stored row after a 400.  The assignments to
\* company, role and link are made on the session's object only (line 48:
\* autoflush=False) and db.close() ends the session without a commit.
update_application_rejected(a, data) == a

\* lines 359-396.  The 400 returns before the commit: the assignments made so
\* far live in the session only and are dropped when it closes.
update_application(user_id, app_id, data, ok) ==
    /\ LET found == find_application(app_id, user_id)
       IN IF found = {}
          THEN /\ Served("update_application", user_id, app_id, data, NotFound)
               /\ UNCHANGED applications
          ELSE \E a \in found :
                 IF update_application_raises(data)
                 THEN /\ Served("update_application", user_id, app_id, data, AttributeError)
                      /\ UNCHANGED applications
                 ELSE IF Has(data, "status") /\ update_application_status(data) \notin DEFAULT_STATUSES
                 THEN /\ Served("update_application", user_id, app_id, data, StatusError)
                      /\ applications' =
                            (applications \ {a}) \cup {update_application_rejected(a, data)}
                 ELSE IF ~ok
                 THEN /\ Served("update_application", user_id, app_id, data, CommitFailed)
                      /\ UNCHANGED applications
                 ELSE LET b == update_application_row(a, data)
                      IN /\ applications' = (applications \ {a}) \cup {b}
                         /\ Served("update_application", user_id, app_id, data,
                                   [status |-> 200, application |-> app_to_dict(b)])
    /\ UNCHANGED <<engine, GEMINI_API_KEY, users, deliverables, writing_bank, seqs, clock, req>>

\* line 84: relationship(..., cascade="all, delete-orphan"): the rows
\* db.delete(a) loads and deletes with a
cascade_deliverables(a) == {d \in deliverables : d.application_id = a.id}

\* lines 398-413
delete_application(user_id, app_id, ok) ==
    /\ LET found == find_application(app_id, user_id)
       IN IF found = {}
          THEN /\ Served("delete_application", user_id, app_id, NoAppData, NotFound)
               /\ UNCHANGED <<applications, deliverables>>
          ELSE \E a \in found :
                 IF ~ok
                 THEN /\ Served("delete_application", user_id, app_id, NoAppData, CommitFailed)
                      /\ UNCHANGED <<applications, deliverables>>
                 ELSE /\ applications' = db_delete(applications, {a})
                      /\ deliverables' = db_delete(deliverables, cascade_deliverables(a))
                      /\ Served("delete_application", user_id, app_id, NoAppData, Deleted)
    /\ UNCHANGED <<engine, GEMINI_API_KEY, users, writing_bank, seqs, clock, req>>

\* =========================================================================
\* Deliverables
\* =========================================================================
Other == <<"O","t","h","e","r">>
NotStarted == <<"N","o","t"," ","s","t","a","r","t","e","d">>
Done == <<"D","o","n","e">>

DelivFields == {"title", "dtype", "due_date", "state", "content", "is_done"}
NoDelivData == [k \in DelivFields |-> Absent]

\* lines 510-515
create_deliverable_parse(data) ==
    [title |-> Strip(Or(Get(data, "title"), EmptyStr)),
     dtype |-> Strip(Or(Get(data, "dtype"), Other)),
     due_date |-> parse_iso_datetime(Get(data, "due_date")),
     state |-> Strip(Or(Get(data, "state"), NotStarted)),
     content |-> Get(data, "content"),
     is_done |-> Truthy(GetDefault(data, "is_done", JsonFalse))]

\* lines 526-535
NewDeliverable(id, app_id, f) ==
    [id |-> id, application_id |-> app_id, title |-> f.title, dtype |-> f.dtype,
     due_date |-> f.due_date, state |-> f.state, content |-> f.content,
     is_done |-> f.is_done, created_at |-> clock, updated_at |-> clock]

\* deliverable_to_dict, lines 170-182
deliverable_to_dict(d) == [d EXCEPT !.due_date = dt_to_iso(d.due_date)]

\* the rows of S in every order ORDER BY updated_at DESC can return them
RECURSIVE DescByUpdated(_)
DescByUpdated(S) ==
    IF S = {} THEN {<< >>}
    ELSE UNION {{<<r>> \o rest : rest \in DescByUpdated(S \ {r})} :
                r \in {x \in S : \A y \in S : y.updated_at <= x.updated_at}}

\* lines 486-501
list_deliverables(user_id, app_id) ==
    /\ IF find_application(app_id, user_id) = {}
       THEN Served("list_deliverables", user_id, app_id, NoDelivData, NotFound)
       ELSE \E ds \in DescByUpdated({d \in deliverables : d.application_id = app_id}) :
               Served("list_deliverables", user_id, app_id, NoDelivData,
                      [status |-> 200,
                       deliverables |-> [i \in 1..Len(ds) |-> deliverable_to_dict(ds[i])]])
    /\ UNCHANGED <<engine, GEMINI_API_KEY, tables, seqs, clock, req>>

\* lines 536-538 and 579-586, 609-616: the parent row is written in the same
\* unit of work as the deliverable.  The mutant commits the parent's new
\* updated_at on its own, before the deliverable's commit is tried.
\* A second mutant leaves the parent as it was.
touch_parent_never(parents, ok) == applications
touch_parent_before_commit(parents, ok) ==
    (applications \ parents) \cup {[a EXCEPT !.updated_at = clock] : a \in parents}
touch_parent(parents, ok) ==
    IF ok
    THEN (applications \ parents) \cup {[a EXCEPT !.updated_at = clock] : a \in parents}
    ELSE applications

\* lines 503-542
create_deliverable(user_id, app_id, data, ok) ==
    LET f == create_deliverable_parse(data)
        found == find_application(app_id, user_id)
        d == NewDeliverable(NewId(deliverables, "deliverables"), app_id, f)
    IN /\ d.id <= MaxDelivId
       /\ IF f.title = EmptyStr
          THEN /\ Served("create_deliverable", user_id, app_id, data,
                         Error(400, "title is required"))
               /\ UNCHANGED <<applications, deliverables, seqs>>
          ELSE IF found = {}
          THEN /\ Served("create_deliverable", user_id, app_id, data, NotFound)
               /\ UNCHANGED <<applications, deliverables, seqs>>
          ELSE /\ applications' = touch_parent(found, ok)
               /\ IF ok
                  THEN /\ deliverables' = deliverables \cup {d}
                       /\ seqs' = SeqsAfter("deliverables")
                       /\ Served("create_deliverable", user_id, app_id, data,
                                 [status |-> 201, deliverable |-> deliverable_to_dict(d)])
                  ELSE /\ UNCHANGED <<deliverables, seqs>>
                       /\ Served("create_deliverable", user_id, app_id, data, CommitFailed)
       /\ UNCHANGED <<engine, GEMINI_API_KEY, users, writing_bank, clock, req>>

\* lines 553-558 and 600-605: Deliverable joined to its Application,
\* filtered by Deliverable.id and Application.user_id
find_deliverable_any_owner(deliverable_id, user_id) ==
    {d \in deliverables : d.id = deliverable_id}
find_deliverable(deliverable_id, user_id) ==
    {d \in deliverables :
        /\ d.id = deliverable_id
        /\ \E a \in applications : a.id = d.application_id /\ a.user_id = user_id}

\* lines 562-579: the row after the assignments
update_deliverable_row(d, data) ==
    LET t == Strip(Or(Get(data, "title"), EmptyStr))
        d1 == [d EXCEPT
                 !.title = IF Has(data, "title") /\ t # EmptyStr THEN t ELSE @,
                 !.dtype = IF Has(data, "dtype")
                           THEN Strip(Or(Get(data, "dtype"), Other)) ELSE @,
                 !.due_date = IF Has(data, "due_date")
                              THEN parse_iso_datetime(Get(data, "due_date")) ELSE @,
                 !.state = IF Has(data, "state")
                           THEN Or(Strip(Or(Get(data, "state"), EmptyStr)), d.state) ELSE @,
                 !.content = IF Has(data, "content") THEN Get(data, "content") ELSE @]
        d2 == IF Has(data, "is_done")
              THEN [d1 EXCEPT !.is_done = Truthy(Get(data, "is_done")),
                              !.state = IF Truthy(Get(data, "is_done")) THEN Done ELSE @]
              ELSE d1
    IN [d2 EXCEPT !.updated_at = clock]

\* lines 544-590
update_deliverable(user_id, deliverable_id, data, ok) ==
    /\ LET found == find_deliverable(deliverable_id, user_id)
       IN IF found = {}
          THEN /\ Served("update_deliverable", user_id, deliverable_id, data, NotFound)
               /\ UNCHANGED <<applications, deliverables>>
          ELSE \E d \in found :
                 LET e == update_deliverable_row(d, data)
                     parent == find_application(d.application_id, user_id)
                 IN /\ applications' = touch_parent(parent, ok)
                    /\ IF ok
                       THEN /\ deliverables' = (deliverables \ {d}) \cup {e}
                            /\ Served("update_deliverable", user_id, deliverable_id, data,
                                      [status |-> 200, deliverable |-> deliverable_to_dict(e)])
                       ELSE /\ UNCHANGED deliverables
                            /\ Served("update_deliverable", user_id, deliverable_id, data,
                                      CommitFailed)
    /\ UNCHANGED <<engine, GEMINI_API_KEY, users, writing_bank, seqs, clock, req>>

\* lines 592-619
delete_deliverable(user_id, deliverable_id, ok) ==
    /\ LET found == find_deliverable(deliverable_id, user_id)
       IN IF found = {}
          THEN /\ Served("delete_deliverable", user_id, deliverable_id, NoDelivData, NotFound)
               /\ UNCHANGED <<applications, deliverables>>
          ELSE \E d \in found :
                 LET parent == find_application(d.application_id, user_id)
                 IN /\ applications' = touch_parent(parent, ok)
                    /\ IF ok
                       THEN /\ deliverables' = db_delete(deliverables, {d})
                            /\ Served("delete_deliverable", user_id, deliverable_id,
                                      NoDelivData, Deleted)
                       ELSE /\ UNCHANGED deliverables
                            /\ Served("delete_deliverable", user_id, deliverable_id,
                                      NoDelivData, CommitFailed)
    /\ UNCHANGED <<engine, GEMINI_API_KEY, users, writing_bank, seqs, clock, req>>

\* =========================================================================
\* Writing bank
\* =========================================================================
WritingFields == {"title", "tags", "content"}
NoWritingData == [k \in WritingFields |-> Absent]

\* writing_item_to_dict, lines 184-192: every column but user_id
writing_item_to_dict(w) ==
    [id |-> w.id, title |-> w.title, tags |-> w.tags, content |-> w.content,
     created_at |-> w.created_at, updated_at |-> w.updated_at]

\* lines 646-676
create_writing(user_id, data, ok) ==
    LET title == Strip(Or(Get(data, "title"), EmptyStr))
        tags == Or(Strip(Or(Get(data, "tags"), EmptyStr)), None)
        content == Or(Get(data, "content"), EmptyStr)
        w == [id |-> NewId(writing_bank, "writing_bank"), user_id |-> user_id,
              title |-> title, tags |-> tags, content |-> content,
              created_at |-> clock, updated_at |-> clock]
    IN /\ w.id <= MaxWritingId
       /\ IF title = EmptyStr
          THEN /\ Served("create_writing", user_id, 0, data, Error(400, "title is required"))
               /\ UNCHANGED <<writing_bank, seqs>>
          ELSE IF Strip(content) = EmptyStr
          THEN /\ Served("create_writing", user_id, 0, data, Error(400, "content is required"))
               /\ UNCHANGED <<writing_bank, seqs>>
          ELSE IF ~ok
          THEN /\ Served("create_writing", user_id, 0, data, CommitFailed)
               /\ UNCHANGED <<writing_bank, seqs>>
          ELSE /\ writing_bank' = writing_bank \cup {w}
               /\ seqs' = SeqsAfter("writing_bank")
               /\ Served("create_writing", user_id, 0, data,
                         [status |-> 201, item |-> writing_item_to_dict(w)])
       /\ UNCHANGED <<engine, GEMINI_API_KEY, users, applications, deliverables, clock, req>>

\* line 687: WritingBankItem.id == item_id, WritingBankItem.user_id == user_id
find_writing_any_owner(item_id, user_id) ==
    {w \in writing_bank : w.id = item_id}
find_writing(item_id, user_id) ==
    {w \in writing_bank : w.id = item_id /\ w.user_id = user_id}

\* a handler that empties the tags when the payload has none
update_writing_row_resets_tags(w, data) ==
    LET t == Strip(Or(Get(data, "title"), EmptyStr))
    IN [w EXCEPT
          !.title = IF Has(data, "title") /\ t # EmptyStr THEN t ELSE @,
          !.tags = Or(Strip(Or(Get(data, "tags"), EmptyStr)), None),
          !.content = IF Has(data, "content") THEN Or(Get(data, "content"), EmptyStr) ELSE @,
          !.updated_at = clock]
\* lines 691-703: the row after the assignments, when the content is accepted
update_writing_row(w, data) ==
    LET t == Strip(Or(Get(data, "title"), EmptyStr))
    IN [w EXCEPT
          !.title = IF Has(data, "title") /\ t # EmptyStr THEN t ELSE @,
          !.tags = IF Has(data, "tags")
                   THEN Or(Strip(Or(Get(data, "tags"), EmptyStr)), None) ELSE @,
          !.content = IF Has(data, "content") THEN Or(Get(data, "content"), EmptyStr) ELSE @,
          !.updated_at = clock]

\* lines 678-708
update_writing(user_id, item_id, data, ok) ==
    /\ LET found == find_writing(item_id, user_id)
       IN IF found = {}
          THEN /\ Served("update_writing", user_id, item_id, data, NotFound)
               /\ UNCHANGED writing_bank
          ELSE \E w \in found :
                 IF Has(data, "content") /\ Strip(Or(Get(data, "content"), EmptyStr)) = EmptyStr
                 THEN /\ Served("update_writing", user_id, item_id, data,
                                Error(400, "content cannot be empty"))
                      /\ UNCHANGED writing_bank
                 ELSE IF ~ok
                 THEN /\ Served("update_writing", user_id, item_id, data, CommitFailed)
                      /\ UNCHANGED writing_bank
                 ELSE LET x == update_writing_row(w, data)
                      IN /\ writing_bank' = (writing_bank \ {w}) \cup {x}
                         /\ Served("update_writing", user_id, item_id, data,
                                   [status |-> 200, item |-> writing_item_to_dict(x)])
    /\ UNCHANGED <<engine, GEMINI_API_KEY, users, applications, deliverables, seqs, clock, req>>

\* lines 710-725
delete_writing(user_id, item_id, ok) ==
    /\ LET found == find_writing(item_id, user_id)
       IN IF found = {}
          THEN /\ Served("delete_writing", user_id, item_id, NoWritingData, NotFound)
               /\ UNCHANGED writing_bank
          ELSE IF ~ok
          THEN /\ Served("delete_writing", user_id, item_id, NoWritingData, CommitFailed)
               /\ UNCHANGED writing_bank
          ELSE /\ writing_bank' = db_delete(writing_bank, found)
               /\ Served("delete_writing", user_id, item_id, NoWritingData, Deleted)
    /\ UNCHANGED <<engine, GEMINI_API_KEY, users, applications, deliverables, seqs, clock, req>>

\* time passes between requests
Tick ==
    /\ clock < MaxClock
    /\ clock' = clock + 1
    /\ UNCHANGED <<engine, GEMINI_API_KEY, tables, seqs, last, req>>

\* =========================================================================
\* delete_application and create_deliverable, split at their storage
\* statements (SpecCascade)
\* =========================================================================
\* lines 401-408: SELECT the application
delete_application_find(w, user_id, app_id) ==
    /\ req[w].pc = "done"
    /\ LET found == find_application(app_id, user_id)
       IN req' = [req EXCEPT ![w] =
                    [op |-> "delete_application", user_id |-> user_id, id |-> app_id,
                     pc |-> IF found = {} THEN "done" ELSE "cascade",
                     cascade |-> {},
                     resp |-> IF found = {} THEN NotFound ELSE NoResp]]
    /\ UNCHANGED <<engine, GEMINI_API_KEY, tables, seqs, clock, last>>

\* line 409: db.delete(a) loads a.deliverables, the rows to delete with it
delete_application_cascade(w) ==
    /\ req[w].op = "delete_application" /\ req[w].pc = "cascade"
    /\ req' = [req EXCEPT ![w] =
                 [@ EXCEPT !.pc = "commit",
                           !.cascade = {d.id : d \in {x \in deliverables :
                                                        x.application_id = req[w].id}}]]
    /\ UNCHANGED <<engine, GEMINI_API_KEY, tables, seqs, clock, last>>

\* line 410: DELETE the loaded deliverables and the application by primary
\* key, COMMIT.  A DELETE that matches no row only warns.  With foreign keys
\* enforced a deliverable still referring to the application fails the
\* DELETE with IntegrityError.
delete_application_commit(w) ==
    /\ req[w].op = "delete_application" /\ req[w].pc = "commit"
    /\ LET remaining == {d \in deliverables : d.id \notin req[w].cascade}
       IN IF ForeignKeysEnforced /\ \E d \in remaining : d.application_id = req[w].id
          THEN /\ Respond(w, Unhandled("IntegrityError"))
               /\ UNCHANGED <<applications, deliverables>>
          ELSE /\ applications' = {a \in applications : a.id # req[w].id}
               /\ deliverables' = remaining
               /\ Respond(w, Deleted)
    /\ UNCHANGED <<engine, GEMINI_API_KEY, users, writing_bank, seqs, clock, last>>

\* lines 506-524: parse, validate, SELECT the application
create_deliverable_find(w, user_id, app_id, data) ==
    /\ req[w].pc = "done"
    /\ LET f == create_deliverable_parse(data)
           found == find_application(app_id, user_id)
           resp == IF f.title = EmptyStr THEN Error(400, "title is required")
                   ELSE IF found = {} THEN NotFound ELSE NoResp
       IN req' = [req EXCEPT ![w] =
                    [op |-> "create_deliverable", user_id |-> user_id, id |-> app_id,
                     fields |-> f, pc |-> IF resp = NoResp THEN "commit" ELSE "done",
                     resp |-> resp]]
    /\ UNCHANGED <<engine, GEMINI_API_KEY, tables, seqs, clock, last>>

\* lines 526-540: UPDATE the application by primary key (a row no longer
\* there makes the flush raise StaleDataError), INSERT the deliverable, COMMIT
create_deliverable_commit(w) ==
    /\ req[w].op = "create_deliverable" /\ req[w].pc = "commit"
    /\ LET d == NewDeliverable(NewId(deliverables, "deliverables"), req[w].id,
                               req[w].fields)
           parent == {a \in applications : a.id = req[w].id}
       IN /\ d.id <= MaxDelivId
          /\ IF parent = {}
             THEN /\ Respond(w, Unhandled("StaleDataError"))
                  /\ UNCHANGED <<applications, deliverables, seqs>>
             ELSE /\ applications' = touch_parent(parent, TRUE)
                  /\ deliverables' = deliverables \cup {d}
                  /\ seqs' = SeqsAfter("deliverables")
                  /\ Respond(w, [status |-> 201, deliverable |-> deliverable_to_dict(d)])
    /\ UNCHANGED <<engine, GEMINI_API_KEY, users, writing_bank, clock, last>>

\* =========================================================================
\* Specifications of the handlers served one at a time
\* =========================================================================
\* ids a request can name: those the table can hold and one it never holds
AppIds == 1..(MaxAppId + 1)
DelivIds == 1..(MaxDelivId + 1)
WritingIds == 1..(MaxWritingId + 1)

Bogus == <<"B","o","g","u","s">>

OwnershipAppPatches ==
    { [NoAppData EXCEPT !["status"] = Offer],
      [NoAppData EXCEPT !["company"] = <<"B">>, !["status"] = Bogus] }
ValidWritingData == [NoWritingData EXCEPT !["title"] = <<"t">>, !["content"] = <<"c">>]
OwnershipWritingPatches ==
    { [NoWritingData EXCEPT !["content"] = <<"d">>],
      [NoWritingData EXCEPT !["title"] = <<"u">>, !["content"] = <<" ">>] }

Init == InitCommon(Cardinality(Callers))

\* Applications and writing-bank items, two users (C5)
NextOwnership ==
    \/ \E user_id \in Callers, ok \in CommitOutcomes :
          create_application(user_id, ValidAppData, ok)
    \/ \E user_id \in Callers, app_id \in AppIds : get_application(user_id, app_id)
    \/ \E user_id \in Callers, app_id \in AppIds, data \in OwnershipAppPatches,
          ok \in CommitOutcomes : update_application(user_id, app_id, data, ok)
    \/ \E user_id \in Callers, app_id \in AppIds, ok \in CommitOutcomes :
          delete_application(user_id, app_id, ok)
    \/ \E user_id \in Callers, ok \in CommitOutcomes :
          create_writing(user_id, ValidWritingData, ok)
    \/ \E user_id \in Callers, item_id \in WritingIds, data \in OwnershipWritingPatches,
          ok \in CommitOutcomes : update_writing(user_id, item_id, data, ok)
    \/ \E user_id \in Callers, item_id \in WritingIds, ok \in CommitOutcomes :
          delete_writing(user_id, item_id, ok)

SpecOwnership == Init /\ [][NextOwnership]_vars

ValidDelivData == [NoDelivData EXCEPT !["title"] = <<"t">>]
DelivCreatePayloads ==
    { ValidDelivData,
      [NoDelivData EXCEPT !["title"] = <<" ">>, !["is_done"] = JsonTrue] }
DelivPatches ==
    { NoDelivData,
      [NoDelivData EXCEPT !["title"] = <<" ">>, !["is_done"] = JsonTrue] }

\* Deliverables under the applications of two users, with time passing
\* (C6, C8, C9)
NextDeliverables ==
    \/ Tick
    \/ \E user_id \in Callers, ok \in CommitOutcomes :
          create_application(user_id, ValidAppData, ok)
    \/ \E user_id \in Callers, app_id \in AppIds : list_deliverables(user_id, app_id)
    \/ \E user_id \in Callers, app_id \in AppIds, data \in DelivCreatePayloads,
          ok \in CommitOutcomes : create_deliverable(user_id, app_id, data, ok)
    \/ \E user_id \in Callers, deliverable_id \in DelivIds, data \in DelivPatches,
          ok \in CommitOutcomes : update_deliverable(user_id, deliverable_id, data, ok)
    \/ \E user_id \in Callers, deliverable_id \in DelivIds, ok \in CommitOutcomes :
          delete_deliverable(user_id, deliverable_id, ok)

SpecDeliverables == Init /\ [][NextDeliverables]_vars

\* Creating and deleting the three kinds of entity (C10)
NextDelete ==
    \/ \E user_id \in Callers, ok \in CommitOutcomes :
          create_application(user_id, ValidAppData, ok)
    \/ \E user_id \in Callers, app_id \in AppIds, ok \in CommitOutcomes :
          create_deliverable(user_id, app_id, ValidDelivData, ok)
    \/ \E user_id \in Callers, ok \in CommitOutcomes :
          create_writing(user_id, ValidWritingData, ok)
    \/ \E user_id \in Callers, app_id \in AppIds, ok \in CommitOutcomes :
          delete_application(user_id, app_id, ok)
    \/ \E user_id \in Callers, deliverable_id \in DelivIds, ok \in CommitOutcomes :
          delete_deliverable(user_id, deliverable_id, ok)
    \/ \E user_id \in Callers, item_id \in WritingIds, ok \in CommitOutcomes :
          delete_writing(user_id, item_id, ok)

SpecDelete == Init /\ [][NextDelete]_vars

\* Applications created one at a time; delete_application and
\* create_deliverable interleaved by the workers (C7)
NextCascade ==
    \/ \E user_id \in Callers : create_application(user_id, ValidAppData, TRUE)
    \/ \E w \in Workers, user_id \in Callers, app_id \in AppIds :
          delete_application_find(w, user_id, app_id)
    \/ \E w \in Workers : delete_application_cascade(w)
    \/ \E w \in Workers : delete_application_commit(w)
    \/ \E w \in Workers, user_id \in Callers, app_id \in AppIds :
          create_deliverable_find(w, user_id, app_id, ValidDelivData)
    \/ \E w \in Workers : create_deliverable_commit(w)

SpecCascade == Init /\ [][NextCascade]_vars

\* a handler served a request in this step
Acted == last' # last

\* every step that changes a table is the step of a handler that changed `last`
LastTracksTables == [][tables' # tables => Acted]_vars

\* C1: under any interleaving of register requests the number of stored Users
\* never exceeds the global cap.
C1_UserCapInvariant == Cardinality(users) <= MAX_USERS_TOTAL

\* C3: a register step that counts the users when the stored count equals the
\* cap answers 403 and no later step of that request writes; stated on every
\* step: a request that read a count equal to the cap ends with 403 at once
\* and the users table is untouched by the step.
C3_RegisterAtCapFails ==
    [][\A w \in Workers :
         (/\ req[w].op = "register" /\ req[w].pc = "count"
          /\ req'[w] # req[w]
          /\ Cardinality(users) = MAX_USERS_TOTAL)
         => /\ req'[w].pc = "done"
            /\ req'[w].resp = Error(403, "User limit reached (10 total).")
            /\ users' = users]_vars

\* C3 witness: a valid request answered 403 having read a count equal to the cap
C3_Witness ==
    \E w \in Workers :
        /\ req[w].op = "register" /\ req[w].pc = "done"
        /\ req[w].total_users = MAX_USERS_TOTAL
        /\ req[w].resp = Error(403, "User limit reached (10 total).")
        /\ Cardinality(users) = MAX_USERS_TOTAL

\* C2: under any interleaving of create-application requests no user owns more
\* Applications than the per-user cap.
C2_AppCapInvariant ==
    \A u \in users : count_apps(u.id) <= MAX_APPS_PER_USER

\* C4: a create-application request with valid fields that counts the caller's
\* applications when the caller owns exactly the cap answers 403 and adds no
\* Application, whatever the other users own.
C4_CreateAtCapFails ==
    [][\A w \in Workers :
         (/\ req[w].op = "create_application" /\ req[w].pc = "count"
          /\ req'[w] # req[w]
          /\ count_apps(req[w].user_id) = MAX_APPS_PER_USER)
         => /\ req'[w].pc = "done"
            /\ req'[w].resp = AppCapacityError
            /\ applications' = applications]_vars

\* C4 witness: a valid request answered 403 for a caller at the cap while
\* another user owns fewer applications than the cap
C4_Witness ==
    \E w \in Workers :
        /\ req[w].op = "create_application" /\ req[w].pc = "done"
        /\ req[w].count_apps = MAX_APPS_PER_USER
        /\ req[w].resp = AppCapacityError
        /\ count_apps(req[w].user_id) = MAX_APPS_PER_USER
        /\ \E u \in users : u.id # req[w].user_id /\ count_apps(u.id) < MAX_APPS_PER_USER

\* the caller owns no application / writing item / deliverable of that id:
\* there is none, or it is another user's
NotOwnApplication(app_id, user_id) ==
    \A a \in applications : a.id = app_id => a.user_id # user_id
NotOwnWriting(item_id, user_id) ==
    \A w \in writing_bank : w.id = item_id => w.user_id # user_id
\* the deliverable exists and its application is another user's
ForeignApplication(app_id, user_id) ==
    \E a \in applications : a.id = app_id /\ a.user_id # user_id
ForeignDeliverable(deliverable_id, user_id) ==
    \E d \in deliverables :
        d.id = deliverable_id /\ ForeignApplication(d.application_id, user_id)

\* C5: get, update and delete of an Application, and update and delete of a
\* WritingBankItem, by a caller who does not own the id answer NotFound, the
\* same response whether the id is another user's or does not exist, and
\* leave every table as it was.
C5_ForeignIdIsNotFound ==
    [][Acted =>
         /\ (/\ last'.op \in {"get_application", "update_application", "delete_application"}
             /\ NotOwnApplication(last'.id, last'.user_id))
            => (last'.resp = NotFound /\ tables' = tables)
         /\ (/\ last'.op \in {"update_writing", "delete_writing"}
             /\ NotOwnWriting(last'.id, last'.user_id))
            => (last'.resp = NotFound /\ tables' = tables)]_vars

\* C5 witness: an update of another user's application was answered NotFound
\* and the application is still stored
C5_Witness ==
    /\ last.op = "update_application"
    /\ last.resp = NotFound
    /\ ForeignApplication(last.id, last.user_id)

TitleMissing(data) == data["title"] \in {Absent, None} \/ LStrip(data["title"]) = EmptyStr

C7_NoOrphanDeliverable ==
    \A d \in deliverables : \E a \in applications : a.id = d.application_id

DeliverableWrites == {"create_deliverable", "update_deliverable", "delete_deliverable"}

\* the application a deliverable request is about: the one named (create) or
\* the one the named deliverable belongs to (update, delete)
ParentIds(op, id) ==
    IF op = "create_deliverable" THEN {id}
    ELSE {d.application_id : d \in {x \in deliverables : x.id = id}}

\* C8: after a successful create, update or delete of a Deliverable the parent
\* Application's updated_at is the time of the request and not smaller than
\* before.
C8_ParentTouched ==
    [][(/\ Acted
        /\ last'.op \in DeliverableWrites
        /\ last'.resp.status \in {200, 201})
       => \A a \in applications :
             a.id \in ParentIds(last'.op, last'.id)
             => \E b \in applications' :
                   /\ b.id = a.id
                   /\ b.updated_at = clock
                   /\ b.updated_at >= a.updated_at
                   /\ b = [a EXCEPT !.updated_at = clock]]_vars

\* C8 witness: a deliverable was updated and its application, created
\* earlier, carries the time of the update
C8_Witness ==
    /\ last.op = "update_deliverable"
    /\ last.resp.status = 200
    /\ \E d \in deliverables, a \in applications :
          /\ d.id = last.id /\ a.id = d.application_id
          /\ a.updated_at = clock /\ a.created_at < clock

\* C9: a create, update or delete of a Deliverable that fails (400, 404, or
\* the commit raising) leaves every Application, the parent among them,
\* exactly as it was.
C9_FailedWriteLeavesParent ==
    [][(/\ Acted
        /\ last'.op \in DeliverableWrites
        /\ last'.resp.status \notin {200, 201})
       => applications' = applications]_vars

\* C9 witness: the commit of an update failed for the owner of a deliverable
\* whose application was last touched before the request
C9_Witness ==
    /\ last.op = "update_deliverable"
    /\ last.resp = CommitFailed
    /\ \E d \in deliverables, a \in applications :
          /\ d.id = last.id /\ a.id = d.application_id
          /\ a.user_id = last.user_id /\ a.updated_at < clock

\* the caller owns the entity a delete request names
OwnsTarget(op, id, user_id) ==
    IF op = "delete_application"
    THEN \E a \in applications : a.id = id /\ a.user_id = user_id
    ELSE IF op = "delete_writing"
    THEN \E w \in writing_bank : w.id = id /\ w.user_id = user_id
    ELSE \E d \in deliverables, a \in applications :
            d.id = id /\ a.id = d.application_id /\ a.user_id = user_id

\* C10: a delete of an Application, Deliverable or WritingBankItem the caller
\* owns succeeds (unless the storage engine fails the commit) and removes it;
\* the same delete served right after a successful one answers NotFound and
\* changes no table.
C10_DeleteTwice ==
    [][(/\ Acted
        /\ last'.op \in {"delete_application", "delete_deliverable", "delete_writing"})
       => /\ (OwnsTarget(last'.op, last'.id, last'.user_id) /\ last'.resp # CommitFailed)
             => /\ last'.resp = Deleted
                /\ \A a \in applications' : last'.op = "delete_application" => a.id # last'.id
                /\ \A d \in deliverables' : last'.op = "delete_deliverable" => d.id # last'.id
                /\ \A w \in writing_bank' : last'.op = "delete_writing" => w.id # last'.id
          /\ last'.again => (last'.resp = NotFound /\ tables' = tables)]_vars

\* C10 witness: the second of two consecutive deletes of a deliverable by its
\* owner was answered NotFound
C10_Witness ==
    /\ last.op = "delete_deliverable"
    /\ last.again
    /\ last.resp = NotFound

\* =========================================================================
\* Creating deliverables with every combination of is_done and state (C11)
\* =========================================================================
InProgress == <<"I","n"," ","p","r","o","g","r","e","s","s">>

DoneCreatePayloads ==
    { ValidDelivData,
      [ValidDelivData EXCEPT !["is_done"] = JsonTrue],
      [ValidDelivData EXCEPT !["is_done"] = JsonTrue, !["state"] = InProgress],
      [ValidDelivData EXCEPT !["is_done"] = JsonTrue, !["state"] = Done],
      [ValidDelivData EXCEPT !["is_done"] = JsonFalse, !["state"] = Done] }

NextCreateDeliverable ==
    \/ \E user_id \in Callers, ok \in CommitOutcomes :
          create_application(user_id, ValidAppData, ok)
    \/ \E user_id \in Callers, app_id \in AppIds, data \in DoneCreatePayloads,
          ok \in CommitOutcomes : create_deliverable(user_id, app_id, data, ok)
    \/ \E user_id \in Callers, deliverable_id \in DelivIds, ok \in CommitOutcomes :
          delete_deliverable(user_id, deliverable_id, ok)

SpecCreateDeliverable == Init /\ [][NextCreateDeliverable]_vars

\* C11: a create of a Deliverable with is_done = true that succeeds returns
\* state "Done" and stores the row with state "Done", whatever state the
\* request carried.
C11_CreateDoneStoresDone ==
    [][(/\ Acted
        /\ last'.op = "create_deliverable"
        /\ last'.resp.status = 201
        /\ Truthy(last'.data["is_done"]))
       => /\ last'.resp.deliverable.state = Done
          /\ \A d \in deliverables' :
                d.id = last'.resp.deliverable.id => d.state = Done]_vars

\* =========================================================================
\* Applications created and updated with every kind of status value (C12)
\* =========================================================================
PaddedOffer == <<" ","O","f","f","e","r"," ">>

StatusValues == {Offer, PaddedOffer, Bogus, EmptyStr, None, JsonTrue}

StatusCreatePayloads ==
    {ValidAppData} \cup {[ValidAppData EXCEPT !["status"] = v] : v \in StatusValues}
StatusPatches ==
    {[NoAppData EXCEPT !["status"] = v] : v \in StatusValues}

NextStatus ==
    \/ \E user_id \in Callers, data \in StatusCreatePayloads, ok \in CommitOutcomes :
          create_application(user_id, data, ok)
    \/ \E user_id \in Callers, app_id \in AppIds, data \in StatusPatches,
          ok \in CommitOutcomes : update_application(user_id, app_id, data, ok)
    \/ \E user_id \in Callers, app_id \in AppIds, ok \in CommitOutcomes :
          delete_application(user_id, app_id, ok)

SpecStatus == Init /\ [][NextStatus]_vars

\* a status value a request carries that is outside the vocabulary, white
\* space around a string not counting
OutsideVocabulary(v) == v # Absent /\ (IsStr(v) => Strip(v) \notin DEFAULT_STATUSES)

\* C12: every stored Application's status is in the vocabulary; a create
\* without a status stores Drafting; a create that carries a status outside
\* the vocabulary, and an update of an application of the caller's that does,
\* answer 400.  (A create takes a null, false or empty status as none given.)
C12_StatusVocabulary ==
    [][/\ \A a \in applications' : a.status \in DEFAULT_STATUSES
       /\ Acted =>
            /\ (/\ last'.op = "create_application"
                /\ last'.data["status"] = Absent
                /\ last'.resp.status = 201)
               => last'.resp.application.status = Drafting
            /\ (/\ last'.op = "create_application"
                /\ Truthy(last'.data["status"])
                /\ OutsideVocabulary(last'.data["status"]))
               => last'.resp.status = 400
            /\ (/\ last'.op = "update_application"
                /\ last'.resp # NotFound
                /\ OutsideVocabulary(last'.data["status"]))
               => last'.resp.status = 400]_vars

\* the e-mail and password a register request carries fail validation
RegisterInvalid(r) ==
    ~EMAIL_RE_match(r.email) \/ Len(r.password) < MIN_PASSWORD_LEN
\* the normalised e-mail of the request is stored
EmailTaken(r) == \E u \in users : u.email = r.email

\* C13: register fails on validation before capacity before conflict.  A
\* request whose e-mail or password is invalid is answered 400 and goes no
\* further, whatever is stored; only valid requests are answered 403 or 409;
\* a request that counts the users at the cap is answered 403 even when its
\* e-mail is stored; 409 is answered only after a count below the cap.
C13_RegisterErrorOrder ==
    [][\A w \in Workers :
          /\ req'[w].op = "register" =>
                /\ RegisterInvalid(req'[w])
                   => (req'[w].resp.status = 400 /\ req'[w].pc = "done")
                /\ req'[w].resp.status \in {403, 409} => ~RegisterInvalid(req'[w])
                /\ req'[w].resp.status = 409 =>
                      (req'[w].total_users \in 0..(MAX_USERS_TOTAL - 1))
          /\ (/\ req[w].op = "register" /\ req[w].pc = "count"
              /\ req'[w].pc # "count"
              /\ Cardinality(users) >= MAX_USERS_TOTAL)
             => req'[w].resp.status = 403]_vars

\* C13 witness: at the cap, a request with a short password and a stored
\* e-mail was answered 400 and a valid request for a stored e-mail 403
C13_Witness ==
    /\ Cardinality(users) >= MAX_USERS_TOTAL
    /\ \E w \in Workers :
          /\ req[w].op = "register" /\ req[w].resp.status = 400
          /\ EmailTaken(req[w]) /\ EMAIL_RE_match(req[w].email)
    /\ \E w \in Workers :
          /\ req[w].op = "register" /\ req[w].resp.status = 403
          /\ EmailTaken(req[w])

\* an e-mail as the claims compare them: trimmed and lowercased
NormalEmail(e) == Lower(Strip(e))

\* C14: no two stored Users have the same e-mail after trimming and
\* lowercasing, and no step of a register request whose e-mail, trimmed and
\* lowercased, is that of a stored User writes a row.
C14_EmailUnique ==
    [][/\ Cardinality({NormalEmail(u.email) : u \in users'}) = Cardinality(users')
       /\ \A w \in Workers :
             (/\ req[w].op = "register"
              /\ req'[w] # req[w]
              /\ users' # users)
             => \A u \in users : NormalEmail(u.email) # NormalEmail(req[w].data.email)]_vars

\* C14 witness: a request for a stored e-mail written in another case and
\* padded was answered 409 and the e-mail is stored once
C14_Witness ==
    \E w \in Workers :
       /\ req[w].op = "register"
       /\ req[w].resp.status = 409
       /\ req[w].data.email # req[w].email
       /\ Cardinality({u \in users : u.email = NormalEmail(req[w].data.email)}) = 1

\* C15: every register request that has ended ended in 201, 400, 403 or 409.
C15_RegisterOutcomes ==
    \A w \in Workers :
       (req[w].op = "register" /\ req[w].pc = "done")
       => req[w].resp.status \in {201, 400, 403, 409}

\* =========================================================================
\* login (C16)
\* =========================================================================
AuthError == Error(401, "Invalid credentials")

\* lines 253-271
login(data) ==
    /\ LET email == Lower(Strip(Or(Get(data, "email"), EmptyStr)))
           password == Or(Get(data, "password"), EmptyStr)
           found == {u \in users : u.email = email}
       IN IF \E u \in found : check_password_hash(u.password_hash, password)
          THEN \E u \in found :
                  Served("login", 0, 0, data,
                         [status |-> 200, user |-> [id |-> u.id, email |-> u.email]])
          ELSE Served("login", 0, 0, data, AuthError)
    /\ UNCHANGED <<engine, GEMINI_API_KEY, tables, seqs, clock, req>>

\* register bodies: a new address and a stored one in another case
LoginRegisterPayloads ==
    { [email |-> <<"k","@","x",".","y">>, password |-> Password2],
      [email |-> <<" ","A","@","X",".","y"," ">>, password |-> Password2] }
\* login bodies: the new address as registered, in another case and padded,
\* with another password; a seeded address; an address never registered
LoginPayloads ==
    { [email |-> <<"k","@","x",".","y">>, password |-> Password2],
      [email |-> <<" ","K","@","X",".","y"," ">>, password |-> Password2],
      [email |-> <<"k","@","x",".","y">>, password |-> Password1],
      [email |-> <<"a","@","x",".","y">>, password |-> Password1],
      [email |-> <<"a","@","x",".","y">>, password |-> EmptyStr],
      [email |-> <<"l","@","x",".","y">>, password |-> Password1] }

NextLogin ==
    \/ \E w \in Workers, data \in LoginRegisterPayloads : register_begin(w, data)
    \/ \E w \in Workers : register_count(w)
    \/ \E w \in Workers : register_exists(w)
    \/ \E w \in Workers : register_commit(w)
    \/ \E data \in LoginPayloads : login(data)

SpecLogin == Init /\ [][NextLogin]_vars

\* the register requests answered 201 that the workers still hold
Registered == {req[w] : w \in {x \in Workers : req[x].op = "register" /\ req[x].resp.status = 201}}

\* C16: a login changes no table and answers 200 or the one AuthError; it
\* answers AuthError when no User has the normalised e-mail; for an e-mail a
\* register request was answered 201 for, it answers 200 with the id that
\* register returned when the password is the registered one and AuthError
\* when it is another; a 200 names a stored User with that e-mail.
C16_Login ==
    [][(Acted /\ last'.op = "login") =>
         /\ tables' = tables
         /\ last'.resp.status = 200 \/ last'.resp = AuthError
         /\ (\A u \in users : u.email # NormalEmail(last'.data.email))
            => last'.resp = AuthError
         /\ \A r \in Registered :
               NormalEmail(r.data.email) = NormalEmail(last'.data.email)
               => IF r.data.password = last'.data.password
                  THEN last'.resp.status = 200 /\ last'.resp.user.id = r.resp.user.id
                  ELSE last'.resp = AuthError
         /\ last'.resp.status = 200
            => \E u \in users : /\ u.id = last'.resp.user.id
                                /\ u.email = NormalEmail(last'.data.email)]_vars

\* C16 witness: a login with the e-mail of a registration written in another
\* case succeeded with the id register returned
C16_Witness ==
    /\ last.op = "login"
    /\ last.resp.status = 200
    /\ \E r \in Registered :
          /\ last.data.email # r.data.email
          /\ last.resp.user.id = r.resp.user.id

\* =========================================================================
\* application_chat (C17, C18, C19)
\* =========================================================================
ChatFields == {"message", "history"}
NoChatData == [k \in ChatFields |-> Absent]

NoneProvided == <<"None provided.">>
NoDeliverablesYet == <<"No deliverables added yet.">>

\* str() of a stored date in an f-string: "YYYY-MM-DD HH:MM:SS", or "None"
str_datetime(dt) ==
    IF dt = None THEN <<"N","o","n","e">>
    ELSE [i \in 1..Len(dt) |-> IF i = 11 THEN " " ELSE dt[i]]

\* line 440: the line of one deliverable
deliv_text(d) ==
    <<"-",">"," ">> \o d.title \o <<" ","(">> \o d.dtype \o
    <<")","."," ","D","u","e",":"," ">> \o str_datetime(d.due_date) \o
    <<"."," ","S","t","a","t","e",":"," ">> \o d.state \o <<".">>

\* "\n".join(lines)
RECURSIVE Join(_)
Join(lines) ==
    IF Len(lines) = 0 THEN EmptyStr
    ELSE IF Len(lines) = 1 THEN lines[1]
    ELSE lines[1] \o <<"\n">> \o Join(Tail(lines))

\* line 441
deliv_str(ds) ==
    IF Len(ds) = 0 THEN NoDeliverablesYet
    ELSE Join([i \in 1..Len(ds) |-> deliv_text(ds[i])])

\* the rows of S in every order a SELECT without ORDER BY can return them
RECURSIVE AnyOrder(_)
AnyOrder(S) ==
    IF S = {} THEN {<< >>}
    ELSE UNION {{<<r>> \o rest : rest \in AnyOrder(S \ {r})} : r \in S}

\* the deliverables of every application
chat_deliverables_unfiltered(app_id) == deliverables
\* line 439: Deliverable.application_id == app_id
chat_deliverables(app_id) == {d \in deliverables : d.application_id = app_id}

\* lines 446-458: the template, as the values it embeds in its five slots
system_instruction(a, ds) ==
    [company |-> a.company, role |-> a.role, status |-> a.status,
     notes |-> Or(a.notes, NoneProvided), deliv_str |-> deliv_str(ds)]

\* a history of one earlier turn, {"role": "user", "parts": "h"}
OneTurnHistory == <<"user: h">>
\* lines 460-465: iterating a history that is not a list (null, true) raises
\* TypeError inside the try
history_raises(chat_history) == chat_history \in {None, JsonTrue, JsonFalse}

\* what chat.send_message does: a reply, or an exception with the
\* provider's message
LlmOutcomes ==
    { [ok |-> TRUE, text |-> <<"r","e","p","l","y">>],
      [ok |-> FALSE, text |-> <<"q","u","o","t","a">>] }

\* an answer that hides the failure behind an empty reply
chat_failure_swallowed(e) == [status |-> 200, reply |-> EmptyStr]
\* lines 479-480: except Exception as e: {"error": str(e)}, 500
chat_failure(e) == [status |-> 500, error |-> e]

\* the request and response of a chat, the prompt handed to the LLM (None
\* when none was built) and what each call of the LLM did, in order
ChatServed(user_id, app_id, data, resp, prompt, calls) ==
    last' = [op |-> "application_chat", pc |-> "done", user_id |-> user_id,
             id |-> app_id, data |-> data, resp |-> resp, again |-> FALSE,
             system_instruction |-> prompt, llm_calls |-> calls]

\* a handler that moves the application it read to Interview
chat_storage_marked(found) ==
    (applications \ found) \cup {[a EXCEPT !.status = Interview] : a \in found}
\* lines 433-482: no db.add, no assignment to a row, no db.commit
chat_storage(found) == applications

\* a handler that sends the message to the LLM before it looks at the key and
\* at the application
application_chat_llm_first(user_id, app_id, data, llm) ==
    /\ ChatServed(user_id, app_id, data,
                  IF ~Truthy(Get(data, "message")) THEN Error(400, "Message is required")
                  ELSE IF ~Truthy(GEMINI_API_KEY)
                  THEN Error(500, "GEMINI_API_KEY is not configured on the server.")
                  ELSE IF find_application(app_id, user_id) = {}
                  THEN Error(404, "Application not found")
                  ELSE [status |-> 200, reply |-> llm.text],
                  None, <<llm>>)
    /\ UNCHANGED <<engine, GEMINI_API_KEY, tables, seqs, clock, req>>

\* lines 421-482.  llm is what the LLM does if it is called.
application_chat(user_id, app_id, data, llm) ==
    LET user_message == Get(data, "message")
        chat_history == GetDefault(data, "history", << >>)
        found == find_application(app_id, user_id)
    IN /\ IF ~Truthy(user_message)
          THEN /\ ChatServed(user_id, app_id, data, Error(400, "Message is required"), None, << >>)
               /\ UNCHANGED applications
          ELSE IF ~Truthy(GEMINI_API_KEY)
          THEN /\ ChatServed(user_id, app_id, data,
                             Error(500, "GEMINI_API_KEY is not configured on the server."),
                             None, << >>)
               /\ UNCHANGED applications
          ELSE IF found = {}
          THEN /\ ChatServed(user_id, app_id, data, Error(404, "Application not found"),
                             None, << >>)
               /\ UNCHANGED applications
          ELSE \E a \in found, ds \in AnyOrder(chat_deliverables(app_id)) :
                 LET prompt == system_instruction(a, ds)
                 IN /\ applications' = chat_storage(found)
                    /\ IF history_raises(chat_history)
                       THEN ChatServed(user_id, app_id, data,
                                       chat_failure(<<"TypeError">>), None, << >>)
                       ELSE IF llm.ok
                       THEN ChatServed(user_id, app_id, data,
                                       [status |-> 200, reply |-> llm.text], prompt, <<llm>>)
                       ELSE ChatServed(user_id, app_id, data,
                                       chat_failure(llm.text), prompt, <<llm>>)
       /\ UNCHANGED <<engine, GEMINI_API_KEY, users, deliverables, writing_bank, seqs, clock, req>>

\* Stored when the process starts, in SpecChat: application 1 of user 1 and
\* application 2 of user 2, each with one deliverable, as create_deliverable
\* stores ValidDelivData
ChatSeedDeliverables ==
    {NewDeliverable(i, i, create_deliverable_parse(ValidDelivData)) : i \in 1..2}

InitChat ==
    /\ engine \in {"sqlite", "postgresql"}
    /\ GEMINI_API_KEY \in {None, ApiKey}
    /\ users = SeededUsers(Cardinality(Callers))
    /\ clock = 0
    /\ applications = SeededApplications(1, 1)
    /\ deliverables = ChatSeedDeliverables
    /\ writing_bank = {}
    /\ seqs = [users |-> IF engine = "sqlite" THEN 0 ELSE Cardinality(Callers),
               applications |-> IF engine = "sqlite" THEN 0 ELSE 2,
               deliverables |-> IF engine = "sqlite" THEN 0 ELSE 2,
               writing_bank |-> 0]
    /\ last = Idle
    /\ req = [w \in Workers |-> Idle]

ChatAppPatches ==
    { [NoAppData EXCEPT !["company"] = <<"B">>, !["status"] = Offer, !["notes"] = <<"n">>],
      [NoAppData EXCEPT !["role"] = <<"s">>, !["notes"] = EmptyStr] }
ChatDelivPatches ==
    { [NoDelivData EXCEPT !["title"] = <<"u">>, !["is_done"] = JsonTrue] }
ChatPayloads ==
    { NoChatData,
      [NoChatData EXCEPT !["message"] = EmptyStr],
      [NoChatData EXCEPT !["message"] = <<"m">>],
      [NoChatData EXCEPT !["message"] = <<"m">>, !["history"] = OneTurnHistory],
      [NoChatData EXCEPT !["message"] = <<"m">>, !["history"] = None] }

NextChat ==
    \/ \E user_id \in Callers, app_id \in AppIds, data \in ChatAppPatches :
          update_application(user_id, app_id, data, TRUE)
    \/ \E user_id \in Callers, app_id \in AppIds :
          create_deliverable(user_id, app_id, ValidDelivData, TRUE)
    \/ \E user_id \in Callers, deliverable_id \in DelivIds, data \in ChatDelivPatches :
          update_deliverable(user_id, deliverable_id, data, TRUE)
    \/ \E user_id \in Callers, deliverable_id \in DelivIds :
          delete_deliverable(user_id, deliverable_id, TRUE)
    \/ \E user_id \in Callers, app_id \in AppIds, data \in ChatPayloads,
          llm \in LlmOutcomes : application_chat(user_id, app_id, data, llm)

SpecChat == InitChat /\ [][NextChat]_vars

\* C17: whatever a chat request is answered (a reply, 400, 404, or 500 for a
\* missing key or a failure), the four tables are after it what they were
\* before it.
C17_ChatReadOnly ==
    [][(Acted /\ last'.op = "application_chat") => tables' = tables]_vars

\* C17 witness: a chat on an application with a deliverable got a reply
C17_Witness ==
    /\ last.op = "application_chat"
    /\ last.resp.status = 200
    /\ \E d \in deliverables : d.application_id = last.id

\* C18: a chat request calls the LLM at most once; when the call fails the
\* request is answered 500 with the provider's message as its error; a reply
\* (200) is only given after a call that succeeded, and is that call's text.
C18_UpstreamError ==
    [][(Acted /\ last'.op = "application_chat") =>
         /\ Len(last'.llm_calls) <= 1
         /\ \A i \in 1..Len(last'.llm_calls) :
               ~last'.llm_calls[i].ok
               => last'.resp = [status |-> 500, error |-> last'.llm_calls[i].text]
         /\ last'.resp.status = 200
            => /\ Len(last'.llm_calls) = 1
               /\ last'.llm_calls[1].ok
               /\ last'.resp.reply = last'.llm_calls[1].text]_vars

\* C18 witness: the LLM was called once, failed, and the chat was answered 500
C18_Witness ==
    /\ last.op = "application_chat"
    /\ Len(last.llm_calls) = 1
    /\ ~last.llm_calls[1].ok
    /\ last.resp.status = 500

\* C19: the prompt a chat hands to the LLM embeds the company, role and status
\* the application has when the chat is served, its notes or 'None provided.'
\* when it has none, and for deliverables either one line for each deliverable
\* stored under that application then, and none for any other, or 'No
\* deliverables added yet.' when it has none.
C19_PromptIsCurrent ==
    [][(Acted /\ last'.op = "application_chat" /\ Len(last'.llm_calls) > 0) =>
         LET prompt == last'.system_instruction
             mine == {d \in deliverables : d.application_id = last'.id}
         IN /\ \E a \in applications :
                  /\ a.id = last'.id /\ a.user_id = last'.user_id
                  /\ prompt.company = a.company
                  /\ prompt.role = a.role
                  /\ prompt.status = a.status
                  /\ prompt.notes = IF a.notes \in {None, EmptyStr}
                                    THEN NoneProvided ELSE a.notes
            /\ IF mine = {}
               THEN prompt.deliv_str = NoDeliverablesYet
               ELSE \E ds \in AnyOrder(mine) :
                       prompt.deliv_str = Join([i \in 1..Len(ds) |-> deliv_text(ds[i])])]_vars

\* C19 witness: a chat on an application whose company and whose deliverable
\* were updated since the start handed over the new company and the new
\* title, while another application has a deliverable of its own
C19_Witness ==
    /\ last.op = "application_chat"
    /\ Len(last.llm_calls) > 0
    /\ last.system_instruction.company = <<"B">>
    /\ \E d \in deliverables :
          /\ d.application_id = last.id /\ d.title = <<"u">>
          /\ last.system_instruction.deliv_str = deliv_text(d)
    /\ \E d \in deliverables : d.application_id # last.id

\* =========================================================================
\* list_applications and list_writing (C20)
\* =========================================================================
\* SQL LIKE: "%" matches any text, "_" any one character, every other
\* character itself
RECURSIVE like(_, _)
like(text, pattern) ==
    IF pattern = << >> THEN text = << >>
    ELSE IF Head(pattern) = "%"
    THEN like(text, Tail(pattern)) \/ (text # << >> /\ like(Tail(text), pattern))
    ELSE /\ text # << >>
         /\ Head(pattern) = "_" \/ Head(pattern) = Head(text)
         /\ like(Tail(text), Tail(pattern))

\* column.ilike(pattern): LIKE on the lowercased values; NULL matches nothing
ilike(column, pattern) == column # None /\ like(Lower(column), Lower(pattern))

\* lines 283 and 629
list_q(q) == Lower(Strip(Or(q, EmptyStr)))
\* lines 290 and 633: f"%{q}%"
like_pattern(q) == <<"%">> \o q \o <<"%">>

\* lines 276-298.  status and q are the query parameters, None when not given.
list_applications(user_id, status, q) ==
    /\ LET pattern == like_pattern(list_q(q))
           rows == {a \in applications :
                      /\ a.user_id = user_id
                      /\ Truthy(status) => a.status = status
                      /\ Truthy(list_q(q)) =>
                            \/ ilike(a.company, pattern)
                            \/ ilike(a.role, pattern)
                            \/ ilike(a.notes, pattern)}
       IN \E apps \in DescByUpdated(rows) :
             Served("list_applications", user_id, 0, [status |-> status, q |-> q],
                    [status |-> 200,
                     applications |-> [i \in 1..Len(apps) |-> app_to_dict(apps[i])]])
    /\ UNCHANGED <<engine, GEMINI_API_KEY, tables, seqs, clock, req>>

\* lines 624-644
list_writing(user_id, q) ==
    /\ LET pattern == like_pattern(list_q(q))
           rows == {w \in writing_bank :
                      /\ w.user_id = user_id
                      /\ Truthy(list_q(q)) =>
                            \/ ilike(w.title, pattern)
                            \/ ilike(w.tags, pattern)
                            \/ ilike(w.content, pattern)}
       IN \E items \in DescByUpdated(rows) :
             Served("list_writing", user_id, 0, [status |-> None, q |-> q],
                    [status |-> 200,
                     items |-> [i \in 1..Len(items) |-> writing_item_to_dict(items[i])]])
    /\ UNCHANGED <<engine, GEMINI_API_KEY, tables, seqs, clock, req>>

\* the writing-bank items of user 1 (ids 1..n1) and user 2 (the next n2 ids)
\* stored when the process starts, each as create_writing stores
\* ValidWritingData
SeededWriting(n1, n2) ==
    {[id |-> i, user_id |-> IF i <= n1 THEN 1 ELSE 2,
      title |-> <<"t">>, tags |-> None, content |-> <<"c">>,
      created_at |-> 0, updated_at |-> 0] : i \in 1..(n1 + n2)}

\* Stored when the process starts, in SpecList: two applications and two
\* items of user 1, one of each of user 2
InitList ==
    /\ engine \in {"sqlite", "postgresql"}
    /\ GEMINI_API_KEY = ApiKey
    /\ users = SeededUsers(Cardinality(Callers))
    /\ applications = SeededApplications(2, 1)
    /\ deliverables = {}
    /\ writing_bank = SeededWriting(2, 1)
    /\ seqs = [users |-> IF engine = "sqlite" THEN 0 ELSE Cardinality(Callers),
               applications |-> IF engine = "sqlite" THEN 0 ELSE 3,
               deliverables |-> 0,
               writing_bank |-> IF engine = "sqlite" THEN 0 ELSE 3]
    /\ clock = 0
    /\ last = Idle
    /\ req = [w \in Workers |-> Idle]

ListAppPatches ==
    { [NoAppData EXCEPT !["company"] = <<"B","c">>, !["status"] = Offer],
      [NoAppData EXCEPT !["notes"] = <<"x","b">>] }
ListWritingPatches ==
    { [NoWritingData EXCEPT !["tags"] = <<"B","c">>] }
\* query parameters: none, a padded upper-case letter, a letter no row has,
\* the LIKE wildcard "_"
ListQueries == {None, <<" ","B"," ">>, <<"z">>, <<"_">>}
ListStatuses == {None, Offer}

NextList ==
    \/ Tick
    \/ \E user_id \in Callers, app_id \in AppIds, data \in ListAppPatches :
          update_application(user_id, app_id, data, TRUE)
    \/ \E user_id \in Callers, item_id \in WritingIds, data \in ListWritingPatches :
          update_writing(user_id, item_id, data, TRUE)
    \/ \E user_id \in Callers, status \in ListStatuses, q \in ListQueries :
          list_applications(user_id, status, q)
    \/ \E user_id \in Callers, q \in ListQueries : list_writing(user_id, q)

SpecList == InitList /\ [][NextList]_vars

\* q is a substring of the text, letter case not counting
Contains(text, q) ==
    /\ text # None
    /\ \E i \in 0..(Len(text) - Len(q)) : SubSeq(Lower(text), i + 1, i + Len(q)) = Lower(q)

\* the ids of a list of rows, and the list being in descending updated_at
IdsOf(rows) == {rows[i].id : i \in 1..Len(rows)}
MostRecentFirst(rows) ==
    \A i \in 1..Len(rows), j \in 1..Len(rows) :
        i < j => rows[i].updated_at >= rows[j].updated_at

\* C20: a list of Applications or WritingBankItems holds, once each and most
\* recently updated first, exactly the caller's rows that have the status
\* asked for (when one is) and that contain the trimmed query as a substring
\* of company, role or notes (title, tags or content), case not counting
\* (when a query is given); no row of another user is in it.
C20_ListOwnedSorted ==
    [][Acted =>
         /\ last'.op = "list_applications" =>
              LET rows == last'.resp.applications
                  q == Strip(Or(last'.data.q, EmptyStr))
                  expected ==
                     {a \in applications :
                        /\ a.user_id = last'.user_id
                        /\ Truthy(last'.data.status) => a.status = last'.data.status
                        /\ q # EmptyStr =>
                              \/ Contains(a.company, q)
                              \/ Contains(a.role, q)
                              \/ Contains(a.notes, q)}
              IN /\ IdsOf(rows) = {a.id : a \in expected}
                 /\ Len(rows) = Cardinality(expected)
                 /\ MostRecentFirst(rows)
         /\ last'.op = "list_writing" =>
              LET rows == last'.resp.items
                  q == Strip(Or(last'.data.q, EmptyStr))
                  expected ==
                     {w \in writing_bank :
                        /\ w.user_id = last'.user_id
                        /\ q # EmptyStr =>
                              \/ Contains(w.title, q)
                              \/ Contains(w.tags, q)
                              \/ Contains(w.content, q)}
              IN /\ IdsOf(rows) = {w.id : w \in expected}
                 /\ Len(rows) = Cardinality(expected)
                 /\ MostRecentFirst(rows)]_vars

\* =========================================================================
\* Preconditions of application_chat (C21)
\* =========================================================================
\* C21: a chat request whose message is missing or empty is answered 400;
\* otherwise, when no API key is configured, 500 with the configuration
\* message; otherwise, when the caller has no application of that id (none
\* exists, or it is another user's), 404; in each of the three cases the LLM
\* is not called, and whenever the LLM is called the message is non-empty,
\* the key is configured and the application is the caller's.
C21_ChatPreconditions ==
    [][(Acted /\ last'.op = "application_chat") =>
         LET message == Get(last'.data, "message")
             no_message == message \in {Absent, None, EmptyStr}
             no_key == GEMINI_API_KEY \in {None, EmptyStr}
             no_app == ~\E a \in applications :
                           a.id = last'.id /\ a.user_id = last'.user_id
         IN /\ no_message
               => last'.resp = Error(400, "Message is required") /\ last'.llm_calls = << >>
            /\ ~no_message /\ no_key
               => /\ last'.resp = Error(500, "GEMINI_API_KEY is not configured on the server.")
                  /\ last'.llm_calls = << >>
            /\ ~no_message /\ ~no_key /\ no_app
               => /\ last'.resp = Error(404, "Application not found")
                  /\ last'.llm_calls = << >>
            /\ last'.llm_calls # << >> => ~no_message /\ ~no_key /\ ~no_app]_vars

\* C21 witness: with a message and the key configured, a chat on an
\* application that exists but is another user's was answered 404 and the
\* LLM was not called
C21_Witness ==
    /\ last.op = "application_chat"
    /\ Truthy(Get(last.data, "message"))
    /\ GEMINI_API_KEY = ApiKey
    /\ \E a \in applications : a.id = last.id /\ a.user_id # last.user_id
    /\ last.resp.status = 404
    /\ last.llm_calls = << >>

\* =========================================================================
\* Updates of the three kinds of entity (C22, C23)
\* =========================================================================
\* Stored when the process starts, in SpecUpdate: one application of user 1
\* with one deliverable, and one writing-bank item of user 1
InitUpdate ==
    /\ engine \in {"sqlite", "postgresql"}
    /\ GEMINI_API_KEY = ApiKey
    /\ users = SeededUsers(Cardinality(Callers))
    /\ clock = 0
    /\ applications = SeededApplications(1, 0)
    /\ deliverables = {NewDeliverable(1, 1, create_deliverable_parse(ValidDelivData))}
    /\ writing_bank = SeededWriting(1, 0)
    /\ seqs = [users |-> IF engine = "sqlite" THEN 0 ELSE Cardinality(Callers),
               applications |-> IF engine = "sqlite" THEN 0 ELSE 1,
               deliverables |-> IF engine = "sqlite" THEN 0 ELSE 1,
               writing_bank |-> IF engine = "sqlite" THEN 0 ELSE 1]
    /\ last = Idle
    /\ req = [w \in Workers |-> Idle]

\* payloads: empty; some fields; fields followed by a status that is refused
UpdateAppPatches ==
    { NoAppData,
      [NoAppData EXCEPT !["company"] = <<"B">>, !["notes"] = <<"n">>],
      [NoAppData EXCEPT !["company"] = <<"C">>, !["role"] = <<"s">>,
                        !["link"] = <<"l">>, !["status"] = Bogus] }
\* payloads: empty; some fields; is_done alone; state alone
UpdateDelivPatches ==
    { NoDelivData,
      [NoDelivData EXCEPT !["title"] = <<"u">>, !["content"] = <<"x">>],
      [NoDelivData EXCEPT !["is_done"] = JsonTrue],
      [NoDelivData EXCEPT !["state"] = InProgress] }
\* payloads: empty; some fields; fields followed by a content that is refused
UpdateWritingPatches ==
    { NoWritingData,
      [NoWritingData EXCEPT !["title"] = <<"u">>, !["tags"] = <<"g">>],
      [NoWritingData EXCEPT !["title"] = <<"v">>, !["tags"] = <<"h">>,
                            !["content"] = <<" ">>] }

NextUpdate ==
    \/ Tick
    \/ \E user_id \in Callers, app_id \in AppIds, data \in UpdateAppPatches,
          ok \in CommitOutcomes : update_application(user_id, app_id, data, ok)
    \/ \E user_id \in Callers, deliverable_id \in DelivIds, data \in UpdateDelivPatches,
          ok \in CommitOutcomes : update_deliverable(user_id, deliverable_id, data, ok)
    \/ \E user_id \in Callers, item_id \in WritingIds, data \in UpdateWritingPatches,
          ok \in CommitOutcomes : update_writing(user_id, item_id, data, ok)

SpecUpdate == InitUpdate /\ [][NextUpdate]_vars

\* the row of a table with the id of the request just served
Target(table) == CHOOSE r \in table : r.id = last'.id

\* the row `new` is the row `old` but for updated_at, now the clock, and for
\* the payload's fields; `free` are the fields that may change though absent
Keeps(old, new, owner, fields, free) ==
    /\ new.id = old.id
    /\ new[owner] = old[owner]
    /\ new.created_at = old.created_at
    /\ new.updated_at = clock
    /\ \A f \in fields \ free : ~Has(last'.data, f) => new[f] = old[f]

\* a successful update keeps what its payload does not carry; `coupled` lets
\* the state of a deliverable change with an is_done that is true
UpdateKeeps(coupled) ==
    (Acted /\ last'.resp.status = 200) =>
       /\ last'.op = "update_application" =>
            /\ Keeps(Target(applications), Target(applications'), "user_id", AppFields, {})
            /\ applications' \ {Target(applications')} = applications \ {Target(applications)}
       /\ last'.op = "update_deliverable" =>
            /\ Keeps(Target(deliverables), Target(deliverables'), "application_id",
                     DelivFields,
                     IF coupled /\ Truthy(Get(last'.data, "is_done")) THEN {"state"} ELSE {})
            /\ deliverables' \ {Target(deliverables')} = deliverables \ {Target(deliverables)}
       /\ last'.op = "update_writing" =>
            /\ Keeps(Target(writing_bank), Target(writing_bank'), "user_id", WritingFields, {})
            /\ writing_bank' \ {Target(writing_bank')} = writing_bank \ {Target(writing_bank)}

\* C22: after a successful update of an application, a deliverable or a
\* writing-bank item the row has its id, owner and created_at, updated_at is
\* the time of the request, and every field the payload does not carry is as
\* it was.
C22_UpdateChangesOnlyPayload == [][UpdateKeeps(FALSE)]_vars

\* C22, amended: the same, except that a deliverable update whose payload has
\* a true is_done sets state to "Done" although the payload carries no state.
C22_UpdateChangesOnlyPayloadOrDone ==
    [][/\ UpdateKeeps(TRUE)
       /\ (Acted /\ last'.op = "update_deliverable" /\ last'.resp.status = 200
             /\ Truthy(Get(last'.data, "is_done")))
          => Target(deliverables').state = Done]_vars

\* C22 witness: at a later time an empty payload was accepted for an
\* application whose company and notes an earlier update had set; they are
\* kept and updated_at is the new time
C22_Witness ==
    /\ last.op = "update_application"
    /\ last.resp.status = 200
    /\ last.data = NoAppData
    /\ clock > 0
    /\ \E a \in applications :
          /\ a.id = last.id /\ a.company = <<"B">> /\ a.notes = <<"n">>
          /\ a.updated_at = clock /\ a.created_at < clock

\* C23: an update of an application or of a writing-bank item that is
\* answered 400 leaves every table as it was: no value of its payload is
\* stored and updated_at is not refreshed.
C23_RejectedUpdateChangesNothing ==
    [][(Acted /\ last'.op \in {"update_application", "update_writing"}
          /\ last'.resp.status = 400) => tables' = tables]_vars

\* C23 witness: at a later time an update carrying a new company, role and
\* link and a status outside the vocabulary was answered 400 for the caller's
\* own application, which has none of these values and its old updated_at
C23_Witness ==
    /\ last.op = "update_application"
    /\ last.resp = StatusError
    /\ Has(last.data, "company") /\ Has(last.data, "role") /\ Has(last.data, "link")
    /\ clock > 0
    /\ \E a \in applications :
          /\ a.id = last.id /\ a.user_id = last.user_id
          /\ a.company # Get(last.data, "company")
          /\ a.role # Get(last.data, "role")
          /\ a.link # Get(last.data, "link")
          /\ a.updated_at < clock

\* =========================================================================
\* Deliverables created and updated with is_done and state (C24)
\* =========================================================================
\* payloads: empty; is_done set; is_done cleared; state alone; both
DonePatches ==
    { NoDelivData,
      [NoDelivData EXCEPT !["is_done"] = JsonTrue],
      [NoDelivData EXCEPT !["is_done"] = JsonFalse],
      [NoDelivData EXCEPT !["state"] = InProgress],
      [NoDelivData EXCEPT !["state"] = InProgress, !["is_done"] = JsonTrue] }

NextDone ==
    \/ \E user_id \in Callers, ok \in CommitOutcomes :
          create_application(user_id, ValidAppData, ok)
    \/ \E user_id \in Callers, app_id \in AppIds, data \in DoneCreatePayloads,
          ok \in CommitOutcomes : create_deliverable(user_id, app_id, data, ok)
    \/ \E user_id \in Callers, deliverable_id \in DelivIds, data \in DonePatches,
          ok \in CommitOutcomes : update_deliverable(user_id, deliverable_id, data, ok)
    \/ \E user_id \in Callers, deliverable_id \in DelivIds, ok \in CommitOutcomes :
          delete_deliverable(user_id, deliverable_id, ok)

SpecDone == Init /\ [][NextDone]_vars

\* C24: every stored deliverable whose is_done is true has state "Done".
C24_DoneHasStateDone ==
    \A d \in deliverables : d.is_done => d.state = Done
====
